---- MODULE Spec2Model ----
(***************************************************************************)
(* State-machine model of the drawing editor in src/src/app/page.tsx       *)
(* (component DrawingApp): the on-screen canvas, the history log with its  *)
(* cursor, the snapshot decodes started by undo/redo, the layer list and   *)
(* the pointer gesture.                                                    *)
(*                                                                         *)
(* Pixels.  The canvas is a strip of Width pixels; a pixel is "T"          *)
(* (transparent), "W" (opaque white, #FFFFFF), "K" (opaque black, #000000, *)
(* the initial colour) or "R" (any other opaque colour of the palette).  A *)
(* canvas or an ImageData is the sequence of its pixels, so its length is  *)
(* its width.                                                              *)
(*                                                                         *)
(* Scheduling.  Every React handler runs to completion and the state it    *)
(* sets is committed before the next event is dispatched, so one action is *)
(* one handler.  The only callbacks that run later are the img.onload      *)
(* callbacks of handleUndo/handleRedo: they are kept in `pending` and may  *)
(* fire in any order, interleaved with any other event.                    *)
(*                                                                         *)
(* Specifications.  Spec is the whole editor.  The history handlers never  *)
(* read the layer list and the layer handlers never read the log, so the   *)
(* properties of each are checked on the part of the editor that can       *)
(* affect them: SpecHistory (one layer; gestures with every tool, clear,   *)
(* undo, redo, decodes) and SpecLayers (every layer operation, the landing *)
(* page, gestures and clear).  SpecResize lets the window take any width,  *)
(* none included, when the editor is entered and afterwards; SpecDecode is *)
(* the history engine on a canvas of any such width; SpecTouch adds the    *)
(* touch handlers to the mouse handlers and SpecFingers is the editor on a *)
(* touch screen alone.  SpecLog puts undo/redo, clear, pen strokes, the    *)
(* layer operations and resize together to watch the log, and SpecStack is *)
(* the layer panel alone with up to MaxStack layers.                       *)
(***************************************************************************)
EXTENDS Integers, Sequences, FiniteSets, TLC

VARIABLES
    showLanding,        \* useState(true), line 24
    mounts,             \* how many <canvas> elements have been mounted so far
    canvas,             \* pixels of canvasRef.current (<<>> while it is null)
    firstCanvas,        \* pixels of the first mounted <canvas> once it is detached
    ctx,                \* 2d context of canvasRef.current: path, current point, strokeStyle
    layers,             \* useState<Layer[]>, line 34
    activeLayerIndex,   \* line 35 (0-based, as in the source)
    history,            \* line 36
    historyIndex,       \* line 37 (0-based, -1 when empty)
    pending,            \* images whose onload has not fired yet, in creation order
    isDrawing,          \* line 29
    drawingMode,        \* line 30
    color,              \* line 31
    startPoint,         \* line 33 (0 models null)
    shapePreviewImage,  \* line 42 (<<>> models null)
    touches,            \* e.touches: the points of the fingers on the canvas, oldest first
    last,               \* the event dispatched last, with the state it found
    rt                  \* progress of the run "n checkpoints, n-1 undos, n-1 redos"

vars == <<showLanding, mounts, canvas, firstCanvas, ctx, layers, activeLayerIndex,
          history, historyIndex, pending, isDrawing, drawingMode, startPoint,
          shapePreviewImage, touches, color, last, rt>>

(***************************************************************************)
(* Bounds of the model.                                                    *)
(***************************************************************************)
Width == 2
MaxHist == 3
MaxPending == 2
MaxLayers == 2
MaxStack == 3
MaxSessions == 2
MaxTouches == 2

Pix == 1..Width

(***************************************************************************)
(* Canvas 2d operations, on pixel sequences.                               *)
(***************************************************************************)
\* source-over compositing of one pixel: an opaque source replaces, a
\* transparent source leaves the destination
Over(src, dst) == IF src = "T" THEN dst ELSE src

\* a freshly created / freshly sized canvas: transparent black everywhere
NewCanvas(w) == [p \in 1..w |-> "T"]

ClearRect(cv) == [p \in DOMAIN cv |-> "T"]

FillRect(cv, style) == [p \in DOMAIN cv |-> Over(style, cv[p])]

\* drawImage(img, 0, 0): the image at its natural size, source-over
DrawImage(cv, img) ==
    [p \in DOMAIN cv |-> IF p \in DOMAIN img THEN Over(img[p], cv[p]) ELSE cv[p]]

GetImageData(cv) == cv

\* faulty variant: the saved pixels are not put back
PutImageDataSkipped(cv, data) == cv

\* putImageData(data, 0, 0): replaces the pixels, no compositing
PutImageData(cv, data) ==
    [p \in DOMAIN cv |-> IF p \in DOMAIN data THEN data[p] ELSE cv[p]]

\* stroke(): paints every pixel the current path covers with strokeStyle
Stroke(cv, path, style) ==
    [p \in DOMAIN cv |-> IF p \in path THEN style ELSE cv[p]]

\* toDataURL(): a PNG of the canvas, its size and its pixels; "data:," for a
\* canvas that has no pixels
ToDataURL(cv) ==
    IF Len(cv) = 0 THEN [mime |-> "", width |-> 0, data |-> <<>>]
    ELSE [mime |-> "image/png", width |-> Len(cv), data |-> cv]

\* the decoded image of a data URL
ImageOf(url) == [p \in 1..url.width |-> url.data[p]]

\* pixels between two points of the strip
Segment(a, b) == {p \in Pix : (a <= p /\ p <= b) \/ (b <= p /\ p <= a)}

\* pixels of the strip a shape's outline covers: the box and the line span
\* anchor and pointer, the circle is centred on the anchor
ShapePath(mode, a, b) ==
    IF mode = "circle"
    THEN {p \in Pix : p = a + (b - a) \/ p = a - (b - a)}
    ELSE Segment(a, b)

FreshCtx == [path |-> {}, pt |-> 0, strokeStyle |-> "K"]

\* the colours the palette offers (lines 46-57), black and white among them;
\* "R" stands for any of the others
Colors == {"K", "W", "R"}

Modes == {"pen", "eraser", "rectangle", "circle", "line"}

(***************************************************************************)
(* History.                                                                *)
(***************************************************************************)
\* faulty variant: the entries after the cursor are kept
TruncateNever(h, idx) == h

\* faulty variant: slice(0, historyIndex) drops the entry at the cursor too
TruncateOffByOne(h, idx) ==
    IF idx < Len(h) - 1 THEN SubSeq(h, 1, idx) ELSE h

\* history.slice(0, historyIndex + 1) when the cursor is not at the tip
TruncateFuture(h, idx) ==
    IF idx < Len(h) - 1 THEN SubSeq(h, 1, idx + 1) ELSE h

\* the history after saveToHistory() run with closure values h, idx
SavedHistory(h, idx, cv) == Append(TruncateFuture(h, idx), ToDataURL(cv))

SavedIndex(idx) == idx + 1

\* history[i] of the source (0-based); undefined outside the log
Entry(h, i) ==
    IF i + 1 \in DOMAIN h THEN h[i + 1]
    ELSE [mime |-> "undefined", width |-> 0, data |-> <<>>]

\* room for one more entry (bound of the model, not of the program)
CanSave == historyIndex + 2 <= MaxHist

(***************************************************************************)
(* Observers.  `last` names the handler that ran last, its argument and    *)
(* the cursor, log length, layer count or gesture flag it found; `rt`      *)
(* follows a run of n checkpoints, then undos, then redos, and is "off"    *)
(* once any other event has intervened.  No handler reads either.          *)
(***************************************************************************)
HistEvent(ev) == [ev |-> ev, idx |-> historyIndex, len |-> Len(history)]
LayerEvent(ev, i) ==
    [ev |-> ev, arg |-> i, act |-> activeLayerIndex, n |-> Len(layers),
     none |-> \A j \in DOMAIN layers : ~layers[j].visible]
PointerEvent(ev) == [ev |-> ev]

RtOff == [phase |-> "off", n |-> 0, k |-> 0]

\* rt after one more checkpoint
RtCheckpoint ==
    IF mounts = 0 THEN [phase |-> "ckpt", n |-> 1, k |-> 0]
    ELSE IF rt.phase = "ckpt" THEN [rt EXCEPT !.n = rt.n + 1]
    ELSE RtOff

\* rt after an undo that moved the cursor
RtUndo ==
    IF rt.phase = "ckpt" /\ ~isDrawing THEN [rt EXCEPT !.phase = "undo", !.k = 1]
    ELSE IF rt.phase = "undo" THEN [rt EXCEPT !.k = rt.k + 1]
    ELSE RtOff

\* rt after a redo that moved the cursor
RtRedo ==
    IF rt.phase = "undo" /\ rt.k = rt.n - 1 THEN [rt EXCEPT !.phase = "redo", !.k = 1]
    ELSE IF rt.phase = "redo" THEN [rt EXCEPT !.k = rt.k + 1]
    ELSE RtOff

\* rt after a pointer event that is not the end of a gesture
RtPointer == IF rt.phase = "ckpt" THEN rt ELSE RtOff

(***************************************************************************)
(* Initial state: DrawingApp mounted, landing page shown.                  *)
(***************************************************************************)
Init ==
    /\ showLanding = TRUE
    /\ mounts = 0
    /\ canvas = <<>>
    /\ firstCanvas = <<>>
    /\ ctx = FreshCtx
    /\ layers = <<[id |-> 1, visible |-> TRUE, canvas |-> "null", width |-> 0]>>
    /\ activeLayerIndex = 0
    /\ history = <<>>
    /\ historyIndex = -1
    /\ pending = <<>>
    /\ isDrawing = FALSE
    /\ drawingMode = "pen"
    /\ color = "K"
    /\ startPoint = 0
    /\ shapePreviewImage = <<>>
    /\ touches = <<>>
    /\ last = [ev |-> "mount"]
    /\ rt = RtOff

(***************************************************************************)
(* Landing page <-> editor.                                                *)
(***************************************************************************)
\* faulty variant: the effect without its saveToHistory
EnterEditorUnsavedAt(w) ==
    /\ showLanding
    /\ mounts < MaxSessions
    /\ mounts = 0 \/ CanSave
    /\ showLanding' = FALSE
    /\ mounts' = mounts + 1
    /\ canvas' = FillRect(NewCanvas(w), "W")
    /\ ctx' = FreshCtx
    /\ layers' = [i \in DOMAIN layers |->
                    IF i = 1 /\ layers[i].canvas = "null"
                    THEN [layers[i] EXCEPT !.canvas = "main"]
                    ELSE layers[i]]
    /\ UNCHANGED <<history, historyIndex>>
    /\ last' = HistEvent("enter")
    /\ rt' = RtCheckpoint
    /\ UNCHANGED <<touches, color, firstCanvas, activeLayerIndex, pending, isDrawing, drawingMode,
                   startPoint, shapePreviewImage>>

\* setShowLanding(false) and the effect of lines 61-96, with a container
\* w pixels wide: size and whiten the new canvas, give the first layer the
\* canvas if it has none, checkpoint
EnterEditorAt(w) ==
    /\ showLanding
    /\ mounts < MaxSessions
    /\ mounts = 0 \/ CanSave
    /\ showLanding' = FALSE
    /\ mounts' = mounts + 1
    /\ canvas' = FillRect(NewCanvas(w), "W")
    /\ ctx' = FreshCtx
    /\ layers' = [i \in DOMAIN layers |->
                    IF i = 1 /\ layers[i].canvas = "null"
                    THEN [layers[i] EXCEPT !.canvas = "main"]
                    ELSE layers[i]]
    /\ history' = SavedHistory(history, historyIndex, canvas')
    /\ historyIndex' = SavedIndex(historyIndex)
    /\ last' = HistEvent("enter")
    /\ rt' = RtCheckpoint
    /\ UNCHANGED <<touches, color, firstCanvas, activeLayerIndex, pending, isDrawing, drawingMode,
                   startPoint, shapePreviewImage>>

\* the editor entered with the window at its full width
EnterEditor == EnterEditorAt(Width)

\* setShowLanding(true), line 913: the canvas is unmounted, canvasRef.current
\* becomes null; the first canvas element lives on in its layer
ShowLanding ==
    /\ ~showLanding
    /\ showLanding' = TRUE
    /\ canvas' = <<>>
    /\ firstCanvas' = IF mounts = 1 THEN canvas ELSE firstCanvas
    /\ ctx' = FreshCtx
    /\ last' = [ev |-> "landing"]
    /\ rt' = RtOff
    /\ UNCHANGED <<touches, color, mounts, layers, activeLayerIndex, history, historyIndex, pending,
                   isDrawing, drawingMode, startPoint, shapePreviewImage>>

(***************************************************************************)
(* Undo, redo, clear.                                                      *)
(***************************************************************************)
\* faulty variant: historyIndex >= 0
UndoGuardOffByOne(idx) == idx >= 0

\* if (historyIndex > 0), line 147
UndoGuard(idx) == idx > 0

\* faulty variant: undo also drops the last entry of the log
HandleUndoPops ==
    /\ ~showLanding
    /\ last' = HistEvent("undo")
    /\ IF UndoGuard(historyIndex)
       THEN /\ Len(pending) < MaxPending
            /\ historyIndex' = historyIndex - 1
            /\ pending' = Append(pending, ImageOf(Entry(history, historyIndex - 1)))
            /\ history' = SubSeq(history, 1, Len(history) - 1)
            /\ rt' = RtUndo
       ELSE /\ UNCHANGED <<historyIndex, pending, history>>
            /\ rt' = RtOff
    /\ UNCHANGED <<touches, color, showLanding, mounts, canvas, firstCanvas, ctx, layers,
                   activeLayerIndex, isDrawing, drawingMode, startPoint,
                   shapePreviewImage>>

\* faulty variant: disabled={historyIndex < 0}
UndoDisabledOffByOne(idx) == idx < 0

\* disabled={historyIndex <= 0}, line 1104
UndoDisabled(idx) == idx <= 0

\* disabled={historyIndex >= history.length - 1}, line 1116
RedoDisabled(idx, h) == idx >= Len(h) - 1

\* handleUndo, lines 146-162.  The undo button is disabled exactly when the
\* guard fails (line 1104); the handler is modelled with its own guard.  At most
\* MaxPending images are loading at a time (bound of the model).
HandleUndo ==
    /\ ~showLanding
    /\ last' = HistEvent("undo")
    /\ IF UndoGuard(historyIndex)
       THEN /\ Len(pending) < MaxPending
            /\ historyIndex' = historyIndex - 1
            /\ pending' = Append(pending, ImageOf(Entry(history, historyIndex - 1)))
            /\ rt' = RtUndo
       ELSE /\ UNCHANGED <<historyIndex, pending>>
            /\ rt' = RtOff
    /\ UNCHANGED <<touches, color, showLanding, mounts, canvas, firstCanvas, ctx, layers,
                   activeLayerIndex, history, isDrawing, drawingMode, startPoint,
                   shapePreviewImage>>

\* if (historyIndex < history.length - 1), line 167
RedoGuard(idx, h) == idx < Len(h) - 1

\* handleRedo, lines 166-182
HandleRedo ==
    /\ ~showLanding
    /\ last' = HistEvent("redo")
    /\ IF RedoGuard(historyIndex, history)
       THEN /\ Len(pending) < MaxPending
            /\ historyIndex' = historyIndex + 1
            /\ pending' = Append(pending, ImageOf(Entry(history, historyIndex + 1)))
            /\ rt' = RtRedo
       ELSE /\ UNCHANGED <<historyIndex, pending>>
            /\ rt' = RtOff
    /\ UNCHANGED <<touches, color, showLanding, mounts, canvas, firstCanvas, ctx, layers,
                   activeLayerIndex, history, isDrawing, drawingMode, startPoint,
                   shapePreviewImage>>

\* the canvas after an img.onload callback of lines 154-160 / 174-180
Loaded(cv, img) == DrawImage(ClearRect(cv), img)

Remove(s, i) == [j \in 1..(Len(s) - 1) |-> IF j < i THEN s[j] ELSE s[j + 1]]

\* the browser can decode the image: a data URL of a canvas without pixels
\* ("data:,") is no image
Decodable(img) == Len(img) > 0

\* img.onload of any image still loading
ImgOnload(i) ==
    /\ i \in DOMAIN pending
    /\ Decodable(pending[i])
    /\ pending' = Remove(pending, i)
    /\ canvas' = IF showLanding THEN canvas ELSE Loaded(canvas, pending[i])
    /\ last' = [ev |-> "onload"]
    /\ rt' = IF rt.phase \in {"undo", "redo"} THEN rt ELSE RtOff
    /\ UNCHANGED <<touches, color, showLanding, mounts, firstCanvas, ctx, layers, activeLayerIndex,
                   history, historyIndex, isDrawing, drawingMode, startPoint,
                   shapePreviewImage>>

\* the load of an image that cannot be decoded fails: its onload never runs
\* and the handlers of lines 146-182 set no onerror
ImgOnerror(i) ==
    /\ i \in DOMAIN pending
    /\ ~Decodable(pending[i])
    /\ pending' = Remove(pending, i)
    /\ last' = [ev |-> "onerror"]
    /\ rt' = RtOff
    /\ UNCHANGED <<touches, color, showLanding, mounts, canvas, firstCanvas, ctx, layers,
                   activeLayerIndex, history, historyIndex, isDrawing, drawingMode,
                   startPoint, shapePreviewImage>>

\* handleClearCanvas, lines 186-193
HandleClearCanvas ==
    /\ ~showLanding
    /\ CanSave
    /\ canvas' = FillRect(canvas, "W")
    /\ history' = SavedHistory(history, historyIndex, canvas')
    /\ historyIndex' = SavedIndex(historyIndex)
    /\ last' = HistEvent("clear")
    /\ rt' = IF isDrawing THEN RtOff ELSE RtCheckpoint
    /\ UNCHANGED <<touches, color, showLanding, mounts, firstCanvas, ctx, layers, activeLayerIndex,
                   pending, isDrawing, drawingMode, startPoint, shapePreviewImage>>

(***************************************************************************)
(* Window resize.                                                          *)
(***************************************************************************)
\* the widths the canvas container takes (clientWidth is never negative)
Sizes == 0..Width

\* the canvas after one run of handleResize (lines 101-119, 478-495) with the
\* container w pixels wide: the pixels are read, the canvas is resized, which
\* clears it, and the pixels are put back at (0, 0).  getImageData of a canvas
\* without pixels throws IndexSizeError, which ends the handler before the
\* canvas is resized.
Resized(cv, w) ==
    IF Len(cv) = 0 THEN cv ELSE PutImageData(NewCanvas(w), GetImageData(cv))

\* a "resize" event of the window: the listeners of lines 122 and 501 both
\* run, one after the other; setting canvas.width resets the 2d context
HandleResize(w) ==
    /\ last' = [ev |-> "resize", arg |-> w]
    /\ rt' = RtOff
    /\ IF ~showLanding /\ Len(canvas) > 0
       THEN /\ canvas' = Resized(Resized(canvas, w), w)
            /\ ctx' = FreshCtx
       ELSE UNCHANGED <<canvas, ctx>>
    /\ UNCHANGED <<touches, color, showLanding, mounts, firstCanvas, layers, activeLayerIndex,
                   history, historyIndex, pending, isDrawing, drawingMode, startPoint,
                   shapePreviewImage>>

(***************************************************************************)
(* Layers.                                                                 *)
(***************************************************************************)
\* the `layers` of the first render, which toggleLayerVisibility's
\* redrawCanvas closes over (useCallback with no dependencies, line 231)
MountLayers == <<[id |-> 1, visible |-> TRUE, canvas |-> "null", width |-> 0]>>

\* pixels of the canvas element a layer holds, while `cv` is on screen: the
\* first mounted <canvas>, or the element addLayer created, which nothing
\* ever draws on
Surface(l, cv) ==
    IF l.canvas = "main"
    THEN (IF mounts = 1 /\ ~showLanding THEN cv ELSE firstCanvas)
    ELSE NewCanvas(l.width)

\* faulty variant: the walk draws hidden layers too
RECURSIVE DrawLayersAll(_, _, _)
DrawLayersAll(cv, ls, i) ==
    IF i > Len(ls) THEN cv
    ELSE IF ls[i].canvas # "null"
    THEN (IF Len(Surface(ls[i], cv)) = 0 THEN cv
          ELSE DrawLayersAll(DrawImage(cv, Surface(ls[i], cv)), ls, i + 1))
    ELSE DrawLayersAll(cv, ls, i + 1)

\* layers.forEach of lines 266-270; drawImage of a canvas without pixels
\* throws InvalidStateError, which ends the walk
RECURSIVE DrawLayers(_, _, _)
DrawLayers(cv, ls, i) ==
    IF i > Len(ls) THEN cv
    ELSE IF ls[i].visible /\ ls[i].canvas # "null"
    THEN (IF Len(Surface(ls[i], cv)) = 0 THEN cv
          ELSE DrawLayers(DrawImage(cv, Surface(ls[i], cv)), ls, i + 1))
    ELSE DrawLayers(cv, ls, i + 1)

\* redrawCanvas, lines 253-273, run with closure value ls
RedrawCanvas(cv, ls) == DrawLayers(FillRect(ClearRect(cv), "W"), ls, 1)

\* faulty variant: the new layer starts hidden
NewLayerHidden(ls, cv) ==
    [id |-> Len(ls) + 1, visible |-> FALSE, canvas |-> "offscreen", width |-> Len(cv)]

\* the layer addLayer builds, lines 198-216: id and name carry the same
\* number layers.length + 1; its canvas takes the size of the on-screen one
\* and stays transparent (the fill colour has alpha 0)
NewLayer(ls, cv) ==
    [id |-> Len(ls) + 1, visible |-> TRUE, canvas |-> "offscreen", width |-> Len(cv)]

\* addLayer, lines 197-221
AddLayer ==
    /\ ~showLanding
    /\ layers' = Append(layers, NewLayer(layers, canvas))
    /\ activeLayerIndex' = Len(layers)
    /\ last' = LayerEvent("addLayer", Len(layers))
    /\ rt' = RtOff
    /\ UNCHANGED <<touches, color, showLanding, mounts, canvas, firstCanvas, ctx, history,
                   historyIndex, pending, isDrawing, drawingMode, startPoint,
                   shapePreviewImage>>

Toggled(ls, index) ==
    [j \in DOMAIN ls |->
        IF j - 1 = index THEN [ls[j] EXCEPT !.visible = ~ls[j].visible] ELSE ls[j]]

\* the list redrawCanvas walks when toggleLayerVisibility calls it
ToggleRedrawLayers(ls) == MountLayers

\* toggleLayerVisibility, lines 225-231
ToggleLayerVisibility(index) ==
    /\ ~showLanding
    /\ index \in 0..(Len(layers) - 1)
    /\ layers' = Toggled(layers, index)
    /\ canvas' = RedrawCanvas(canvas, ToggleRedrawLayers(layers))
    /\ last' = LayerEvent("toggle", index)
    /\ rt' = RtOff
    /\ UNCHANGED <<touches, color, showLanding, mounts, firstCanvas, ctx, activeLayerIndex, history,
                   historyIndex, pending, isDrawing, drawingMode, startPoint,
                   shapePreviewImage>>

Max(a, b) == IF a >= b THEN a ELSE b

\* faulty variant: layers.length > 0
DeleteGuardOffByOne(ls) == Len(ls) > 0

\* if (layers.length > 1), line 237
DeleteGuard(ls) == Len(ls) > 1

\* prev.filter((_, i) => i !== index)
Filtered(ls, index) ==
    [j \in 1..(Len(ls) - 1) |-> IF j - 1 < index THEN ls[j] ELSE ls[j + 1]]

\* faulty variant: activeLayerIndex is not adjusted
ActiveKept(act, index) == act

\* faulty variant: the index is lowered whichever layer is deleted
ActiveLowered(act, index) == Max(0, act - 1)

\* activeLayerIndex after deleteLayer(index), lines 239-241
ActiveAfterDelete(act, index) == IF act >= index THEN Max(0, act - 1) ELSE act

\* deleteLayer, lines 235-249
DeleteLayer(index) ==
    /\ ~showLanding
    /\ index \in 0..(Len(layers) - 1)
    /\ last' = LayerEvent("deleteLayer", index)
    /\ rt' = RtOff
    /\ IF DeleteGuard(layers)
       THEN /\ layers' = Filtered(layers, index)
            /\ activeLayerIndex' = ActiveAfterDelete(activeLayerIndex, index)
            /\ canvas' = RedrawCanvas(canvas, layers)
       ELSE UNCHANGED <<layers, activeLayerIndex, canvas>>
    /\ UNCHANGED <<touches, color, showLanding, mounts, firstCanvas, ctx, history, historyIndex,
                   pending, isDrawing, drawingMode, startPoint, shapePreviewImage>>

\* faulty variant: selecting a layer also recomposites the canvas
SetActiveLayerIndexRedraws(index) ==
    /\ ~showLanding
    /\ index \in 0..(Len(layers) - 1)
    /\ activeLayerIndex' = index
    /\ canvas' = RedrawCanvas(canvas, layers)
    /\ last' = LayerEvent("setActive", index)
    /\ rt' = RtOff
    /\ UNCHANGED <<touches, color, showLanding, mounts, firstCanvas, ctx, layers,
                   history, historyIndex, pending, isDrawing, drawingMode, startPoint,
                   shapePreviewImage>>

\* onClick={() => setActiveLayerIndex(index)}, line 1268
SetActiveLayerIndex(index) ==
    /\ ~showLanding
    /\ index \in 0..(Len(layers) - 1)
    /\ activeLayerIndex' = index
    /\ last' = LayerEvent("setActive", index)
    /\ rt' = RtOff
    /\ UNCHANGED <<touches, color, showLanding, mounts, canvas, firstCanvas, ctx, layers, history,
                   historyIndex, pending, isDrawing, drawingMode, startPoint,
                   shapePreviewImage>>

(***************************************************************************)
(* Pointer gestures.                                                       *)
(***************************************************************************)
\* setDrawingMode, lines 952-1033
SetDrawingMode(m) ==
    /\ ~showLanding
    /\ m # drawingMode
    /\ drawingMode' = m
    /\ last' = [ev |-> "setMode"]
    /\ rt' = RtPointer
    /\ UNCHANGED <<touches, color, showLanding, mounts, canvas, firstCanvas, ctx, layers,
                   activeLayerIndex, history, historyIndex, pending, isDrawing,
                   startPoint, shapePreviewImage>>

\* setColor, lines 1168 and 1183
SetColor(c) ==
    /\ ~showLanding
    /\ c # color
    /\ color' = c
    /\ last' = [ev |-> "setColor"]
    /\ rt' = RtPointer
    /\ UNCHANGED <<touches, showLanding, mounts, canvas, firstCanvas, ctx, layers,
                   activeLayerIndex, history, historyIndex, pending, isDrawing,
                   drawingMode, startPoint, shapePreviewImage>>

Freehand(m) == m \in {"pen", "eraser"}

\* faulty variant: the eraser strokes with the selected colour
StrokeStyleOfColor(mode, c) == c

\* drawingMode === "eraser" ? "#FFFFFF" : color, lines 326 and 411
StrokeStyleOf(mode, c) == IF mode = "eraser" THEN "W" ELSE c

\* startDrawing, lines 313-336 (onMouseDown)
StartDrawing(point) ==
    /\ ~showLanding
    /\ isDrawing' = TRUE
    /\ startPoint' = point
    /\ IF Freehand(drawingMode)
       THEN /\ ctx' = [path |-> {}, pt |-> point,
                       strokeStyle |-> StrokeStyleOf(drawingMode, color)]
            /\ UNCHANGED shapePreviewImage
       ELSE /\ shapePreviewImage' = GetImageData(canvas)
            /\ UNCHANGED ctx
    /\ last' = PointerEvent("mousedown")
    /\ rt' = RtPointer
    /\ UNCHANGED <<touches, color, showLanding, mounts, canvas, firstCanvas, layers, activeLayerIndex,
                   history, historyIndex, pending, drawingMode>>

\* ctx.lineTo(point): with no current point it only starts a subpath
LineTo(c, point) ==
    IF c.pt = 0 THEN [c EXCEPT !.pt = point]
    ELSE [c EXCEPT !.path = c.path \cup Segment(c.pt, point), !.pt = point]

\* the context after the shape arm of draw, lines 362-376
ShapeCtx(mode, a, point) ==
    [path |-> ShapePath(mode, a, point),
     pt |-> IF mode = "line" THEN point ELSE a,
     strokeStyle |-> color]

\* draw, lines 339-381 (onMouseMove)
Draw(point) ==
    /\ ~showLanding
    /\ last' = PointerEvent("mousemove")
    /\ rt' = RtPointer
    /\ IF ~isDrawing
       THEN UNCHANGED <<canvas, ctx>>
       ELSE IF Freehand(drawingMode)
       THEN /\ ctx' = LineTo(ctx, point)
            /\ canvas' = Stroke(canvas, ctx'.path, ctx'.strokeStyle)
       ELSE IF startPoint # 0 /\ shapePreviewImage # <<>>
       THEN /\ ctx' = ShapeCtx(drawingMode, startPoint, point)
            /\ canvas' = Stroke(PutImageData(canvas, shapePreviewImage),
                                ctx'.path, ctx'.strokeStyle)
       ELSE UNCHANGED <<canvas, ctx>>
    /\ UNCHANGED <<touches, color, showLanding, mounts, firstCanvas, layers, activeLayerIndex, history,
                   historyIndex, pending, isDrawing, drawingMode, startPoint,
                   shapePreviewImage>>

\* faulty variant: stopDrawing without its isDrawing test
StopGuardAlways(drawing) == TRUE

\* if (isDrawing), line 385
StopGuard(drawing) == drawing

StopEvent(ev) ==
    [ev |-> ev, was |-> isDrawing, idx |-> historyIndex, len |-> Len(history)]

\* stopDrawing, lines 384-390.  startPoint and the context's path, current
\* point and strokeStyle are dead once the gesture is closed: startDrawing
\* writes startPoint and (pen, eraser) the path and the style, and the shape
\* arm of draw writes the path and the style, before anything reads them.  The
\* model forgets them here, so that states differing only in dead values
\* coincide.
StopDrawing(ev) ==
    /\ ~showLanding
    /\ last' = StopEvent(ev)
    /\ IF StopGuard(isDrawing)
       THEN /\ CanSave
            /\ isDrawing' = FALSE
            /\ shapePreviewImage' = <<>>
            /\ history' = SavedHistory(history, historyIndex, canvas)
            /\ historyIndex' = SavedIndex(historyIndex)
            /\ rt' = RtCheckpoint
            /\ ctx' = FreshCtx
            /\ startPoint' = 0
       ELSE /\ UNCHANGED <<isDrawing, shapePreviewImage, history, historyIndex, ctx,
                           startPoint>>
            /\ rt' = RtPointer
    /\ UNCHANGED <<touches, color, showLanding, mounts, canvas, firstCanvas, layers, activeLayerIndex,
                   pending, drawingMode>>

\* onMouseUp={stopDrawing}, line 1201
MouseUp == StopDrawing("mouseup")

\* faulty variant: the pointer leaving the canvas is not handled
MouseLeaveIgnored ==
    /\ ~showLanding
    /\ last' = StopEvent("mouseleave")
    /\ rt' = RtPointer
    /\ UNCHANGED <<touches, color, showLanding, mounts, canvas, firstCanvas, ctx, layers,
                   activeLayerIndex, history, historyIndex, pending, isDrawing,
                   drawingMode, startPoint, shapePreviewImage>>

\* onMouseLeave={stopDrawing}, line 1202
MouseLeave == StopDrawing("mouseleave")

(***************************************************************************)
(* Touch gestures.  `touches` is the TouchList of the event: one point per *)
(* finger on the canvas, the finger that has been down longest first.  The *)
(* handlers read touches[0] only.                                          *)
(***************************************************************************)
TouchEvent(ev, f) ==
    [ev |-> ev, finger |-> f, was |-> isDrawing, idx |-> historyIndex,
     len |-> Len(history)]

\* handleTouchStart, lines 394-420 (onTouchStart): one more finger lands, at
\* `point`
HandleTouchStart(point) ==
    /\ ~showLanding
    /\ Len(touches) < MaxTouches
    /\ touches' = Append(touches, point)
    /\ isDrawing' = TRUE
    /\ startPoint' = touches'[1]
    /\ IF Freehand(drawingMode)
       THEN /\ ctx' = [path |-> {}, pt |-> touches'[1],
                       strokeStyle |-> StrokeStyleOf(drawingMode, color)]
            /\ UNCHANGED shapePreviewImage
       ELSE /\ shapePreviewImage' = GetImageData(canvas)
            /\ UNCHANGED ctx
    /\ last' = TouchEvent("touchstart", Len(touches'))
    /\ rt' = RtPointer
    /\ UNCHANGED <<color, showLanding, mounts, canvas, firstCanvas, layers, activeLayerIndex,
                   history, historyIndex, pending, drawingMode>>

\* handleTouchMove, lines 422-465 (onTouchMove): finger f moves to `point`
HandleTouchMove(f, point) ==
    /\ ~showLanding
    /\ f \in DOMAIN touches
    /\ touches' = [touches EXCEPT ![f] = point]
    /\ last' = TouchEvent("touchmove", f)
    /\ rt' = RtPointer
    /\ IF ~isDrawing
       THEN UNCHANGED <<canvas, ctx>>
       ELSE IF Freehand(drawingMode)
       THEN /\ ctx' = LineTo(ctx, touches'[1])
            /\ canvas' = Stroke(canvas, ctx'.path, ctx'.strokeStyle)
       ELSE IF startPoint # 0 /\ shapePreviewImage # <<>>
       THEN /\ ctx' = ShapeCtx(drawingMode, startPoint, touches'[1])
            /\ canvas' = Stroke(PutImageData(canvas, shapePreviewImage),
                                ctx'.path, ctx'.strokeStyle)
       ELSE UNCHANGED <<canvas, ctx>>
    /\ UNCHANGED <<color, showLanding, mounts, firstCanvas, layers, activeLayerIndex, history,
                   historyIndex, pending, isDrawing, drawingMode, startPoint,
                   shapePreviewImage>>

\* faulty variant: handleTouchEnd without its isDrawing test
HandleTouchEndUnguarded(f) ==
    /\ ~showLanding
    /\ f \in DOMAIN touches
    /\ touches' = Remove(touches, f)
    /\ last' = TouchEvent("touchend", f)
    /\ IF TRUE
       THEN /\ CanSave
            /\ isDrawing' = FALSE
            /\ shapePreviewImage' = <<>>
            /\ history' = SavedHistory(history, historyIndex, canvas)
            /\ historyIndex' = SavedIndex(historyIndex)
            /\ rt' = RtCheckpoint
            /\ ctx' = FreshCtx
            /\ startPoint' = 0
       ELSE /\ UNCHANGED <<isDrawing, shapePreviewImage, history, historyIndex, ctx,
                           startPoint>>
            /\ rt' = RtPointer
    /\ UNCHANGED <<color, showLanding, mounts, canvas, firstCanvas, layers, activeLayerIndex,
                   pending, drawingMode>>

\* handleTouchEnd, lines 467-474 (onTouchEnd): finger f is lifted.  The dead
\* values are forgotten as in stopDrawing.
HandleTouchEnd(f) ==
    /\ ~showLanding
    /\ f \in DOMAIN touches
    /\ touches' = Remove(touches, f)
    /\ last' = TouchEvent("touchend", f)
    /\ IF isDrawing
       THEN /\ CanSave
            /\ isDrawing' = FALSE
            /\ shapePreviewImage' = <<>>
            /\ history' = SavedHistory(history, historyIndex, canvas)
            /\ historyIndex' = SavedIndex(historyIndex)
            /\ rt' = RtCheckpoint
            /\ ctx' = FreshCtx
            /\ startPoint' = 0
       ELSE /\ UNCHANGED <<isDrawing, shapePreviewImage, history, historyIndex, ctx,
                           startPoint>>
            /\ rt' = RtPointer
    /\ UNCHANGED <<color, showLanding, mounts, canvas, firstCanvas, layers, activeLayerIndex,
                   pending, drawingMode>>

(***************************************************************************)
(* Next-state relations.  The toolbar and the layers panel lie outside the *)
(* canvas: the pointer leaves the canvas (onMouseLeave, stopDrawing)       *)
(* before it can click one of their buttons, so a button is clicked only   *)
(* while no gesture is open.  img.onload is no user input and fires at any *)
(* time.                                                                   *)
(***************************************************************************)
ButtonClickable == ~showLanding /\ ~isDrawing

HistoryButtons ==
    \/ HandleUndo
    \/ HandleRedo
    \/ HandleClearCanvas

LayerButtons ==
    \/ Len(layers) < MaxLayers /\ AddLayer
    \/ \E i \in 0..(MaxLayers - 1) : ToggleLayerVisibility(i)
    \/ \E i \in 0..(MaxLayers - 1) : DeleteLayer(i)
    \/ \E i \in 0..(MaxLayers - 1) : SetActiveLayerIndex(i)

\* a gesture is opened only while the log has room for its checkpoint
\* (bound of the model)
Pointer ==
    \/ CanSave /\ \E p \in Pix : StartDrawing(p)
    \/ \E p \in Pix : Draw(p)
    \/ MouseUp
    \/ MouseLeave

\* where a finger that went down on the canvas can be: touch events keep
\* going to the canvas when the finger slides off it, to the left of the first
\* pixel or to the right of the last one (lines 427-430 subtract the canvas
\* origin and nothing else)
TouchPoints == Pix \cup {-1, Width + 1}

Touch ==
    \/ CanSave /\ \E p \in Pix : HandleTouchStart(p)
    \/ \E f \in 1..MaxTouches, p \in TouchPoints : HandleTouchMove(f, p)
    \/ \E f \in 1..MaxTouches : HandleTouchEnd(f)

\* the history engine: one layer, every tool
NextHistory ==
    \/ EnterEditor
    \/ ButtonClickable /\ HistoryButtons
    \/ \E i \in 1..MaxPending : ImgOnload(i)
    \/ ButtonClickable /\ \E m \in Modes : SetDrawingMode(m)
    \/ Pointer

SpecHistory == Init /\ [][NextHistory]_vars

\* the layer stack: every layer operation, the landing page, gestures and
\* clear, no undo/redo
NextLayers ==
    \/ EnterEditor
    \/ ButtonClickable /\ ShowLanding
    \/ ButtonClickable /\ LayerButtons
    \/ ButtonClickable /\ HandleClearCanvas
    \/ ButtonClickable /\ \E m \in Modes : SetDrawingMode(m)
    \/ Pointer

SpecLayers == Init /\ [][NextLayers]_vars

\* the resizable editor: the window at any width when the editor is entered
\* and afterwards, gestures with every tool, clear, new layers
NextResize ==
    \/ \E w \in Sizes : EnterEditorAt(w)
    \/ \E w \in Sizes : HandleResize(w)
    \/ ButtonClickable /\ HandleClearCanvas
    \/ ButtonClickable /\ Len(layers) < MaxLayers /\ AddLayer
    \/ ButtonClickable /\ \E m \in Modes : SetDrawingMode(m)
    \/ Pointer

SpecResize == Init /\ [][NextResize]_vars

\* the history engine on a canvas of any width, a canvas without pixels
\* included: its snapshots are "data:,", which no undo or redo can decode
NextDecode ==
    \/ \E w \in Sizes : EnterEditorAt(w)
    \/ ButtonClickable /\ HistoryButtons
    \/ \E i \in 1..MaxPending : ImgOnload(i)
    \/ \E i \in 1..MaxPending : ImgOnerror(i)
    \/ ButtonClickable /\ \E m \in Modes : SetDrawingMode(m)
    \/ Pointer

SpecDecode == Init /\ [][NextDecode]_vars

\* the editor under mouse and fingers: gestures with every tool and colour
\* by either, clear
NextTouch ==
    \/ EnterEditor
    \/ ButtonClickable /\ HandleClearCanvas
    \/ ButtonClickable /\ \E m \in Modes : SetDrawingMode(m)
    \/ ButtonClickable /\ \E c \in Colors : SetColor(c)
    \/ Pointer
    \/ Touch

SpecTouch == Init /\ [][NextTouch]_vars

\* the editor on a touch screen: gestures with every tool and colour by up
\* to MaxTouches fingers, clear
NextFingers ==
    \/ EnterEditor
    \/ ButtonClickable /\ HandleClearCanvas
    \/ ButtonClickable /\ \E m \in Modes : SetDrawingMode(m)
    \/ ButtonClickable /\ \E c \in Colors : SetColor(c)
    \/ Touch

SpecFingers == Init /\ [][NextFingers]_vars

\* the log under every operation: undo, redo and their decodes, clear, pen
\* strokes on the first pixel, every layer operation and the window at any
\* width that has pixels; a history button is pressed when no decode is in
\* flight and the window is resized between gestures
NextLog ==
    \/ EnterEditor
    \/ ~isDrawing /\ \E w \in Pix : HandleResize(w)
    \/ ButtonClickable /\ pending = <<>> /\ HistoryButtons
    \/ ImgOnload(1)
    \/ ButtonClickable /\ LayerButtons
    \/ CanSave /\ StartDrawing(1)
    \/ Draw(1)
    \/ MouseUp

SpecLog == Init /\ [][NextLog]_vars

\* the layer panel alone, with up to MaxStack layers
NextStack ==
    \/ EnterEditor
    \/ ButtonClickable /\ Len(layers) < MaxStack /\ AddLayer
    \/ ButtonClickable /\ \E i \in 0..(MaxStack - 1) : ToggleLayerVisibility(i)
    \/ ButtonClickable /\ \E i \in 0..(MaxStack - 1) : DeleteLayer(i)
    \/ ButtonClickable /\ \E i \in 0..(MaxStack - 1) : SetActiveLayerIndex(i)

SpecStack == Init /\ [][NextStack]_vars

\* the whole editor
Next ==
    \/ \E w \in Sizes : EnterEditorAt(w)
    \/ \E w \in Sizes : HandleResize(w)
    \/ ButtonClickable /\ ShowLanding
    \/ ButtonClickable /\ HistoryButtons
    \/ \E i \in 1..MaxPending : ImgOnload(i)
    \/ \E i \in 1..MaxPending : ImgOnerror(i)
    \/ ButtonClickable /\ LayerButtons
    \/ ButtonClickable /\ \E m \in Modes : SetDrawingMode(m)
    \/ ButtonClickable /\ \E c \in Colors : SetColor(c)
    \/ Pointer
    \/ Touch

Spec == Init /\ [][Next]_vars

(***************************************************************************)
(* Properties.                                                             *)
(***************************************************************************)
\* the step ran saveToHistory: the initialisation effect, clear, or the end
\* of an open gesture
Checkpointed ==
    \/ last'.ev \in {"enter", "clear"}
    \/ last'.ev \in {"mouseup", "mouseleave"} /\ last'.was

\* C1: after saveToHistory at any cursor position c the log is the old
\* entries 0..c followed by the new snapshot of the canvas, its length is
\* c+2 and the cursor is at the tip (length-1).
C1_CheckpointPostcondition ==
    [][Checkpointed =>
        /\ history' = Append(SubSeq(history, 1, historyIndex + 1), ToDataURL(canvas'))
        /\ Len(history') = historyIndex + 2
        /\ historyIndex' = Len(history') - 1]_vars

\* a checkpoint was pushed from a cursor that was not at the tip
C1_Witness ==
    /\ last.ev \in {"clear", "mouseup"}
    /\ last.idx >= 0
    /\ last.idx < last.len - 1
    /\ Len(history) = last.idx + 2
    /\ historyIndex = last.idx + 1

\* the display after n checkpoints, n-1 undos, n-1 redos and every decode
RoundTripDone == rt.phase = "redo" /\ rt.k = rt.n - 1 /\ pending = <<>>

\* C2: after n checkpoints, n-1 undos and then n-1 redos the cursor is at the
\* tip and the displayed canvas is the content of the last checkpoint.
C2_RoundTrip ==
    RoundTripDone =>
        /\ historyIndex = Len(history) - 1
        /\ canvas = ImageOf(Entry(history, Len(history) - 1))

\* C3: the cursor is -1 exactly when the log is empty and otherwise lies in
\* 0..length-1.
C3_CursorInvariant ==
    /\ historyIndex = -1 <=> history = <<>>
    /\ history # <<>> => 0 <= historyIndex /\ historyIndex <= Len(history) - 1

\* a full log whose cursor was undone back to its first entry
C3_Witness ==
    /\ last.ev = "undo"
    /\ Len(history) = MaxHist
    /\ historyIndex = 0

\* C4: the end of an open gesture appends exactly one entry; pointer-down,
\* pointer-move, a decode landing, and a pointer-up or pointer-leave with no
\* gesture open append none.
C4_OneGestureOneEntry ==
    [][/\ (last'.ev \in {"mouseup", "mouseleave"} /\ isDrawing) =>
            /\ ~isDrawing'
            /\ history' = Append(SubSeq(history, 1, historyIndex + 1),
                                 ToDataURL(canvas))
            /\ historyIndex' = historyIndex + 1
       /\ (last'.ev \in {"mouseup", "mouseleave"} /\ ~isDrawing) =>
            UNCHANGED <<history, historyIndex, isDrawing>>
       /\ last'.ev \in {"mousedown", "mousemove", "onload"} =>
            UNCHANGED <<history, historyIndex>>]_vars

\* a pointer-leave with no gesture open, after a gesture was checkpointed
C4_Witness ==
    /\ last.ev = "mouseleave"
    /\ ~last.was
    /\ last.len >= 2
    /\ Len(history) = last.len
    /\ historyIndex = last.idx

\* C5: undo with cursor <= 0 and redo with the cursor at the tip change
\* neither the cursor, the log, the canvas nor the set of running decodes.
C5_BoundaryNoOp ==
    [][/\ (last'.ev = "undo" /\ historyIndex <= 0) =>
            UNCHANGED <<historyIndex, history, canvas, pending>>
       /\ (last'.ev = "redo" /\ historyIndex >= Len(history) - 1) =>
            UNCHANGED <<historyIndex, history, canvas, pending>>]_vars

\* undo was invoked with the cursor on the first entry
C5_Witness ==
    /\ last.ev = "undo"
    /\ last.idx = 0
    /\ historyIndex = 0
    /\ canvas # FillRect(NewCanvas(Width), "W")

\* C6: while an image started by undo/redo is still loading, no pointer-down
\* opens a gesture.
C6_NoGestureDuringDecode ==
    [][(pending # <<>> /\ ~isDrawing) => ~isDrawing']_vars

\* C7: deleteLayer on a stack of exactly one layer changes neither the layer
\* list, activeLayerIndex nor the canvas, and the stack always holds at least
\* one layer.
C7_LastLayerKept ==
    /\ [](Len(layers) >= 1)
    /\ [][(last'.ev = "deleteLayer" /\ Len(layers) = 1) =>
            UNCHANGED <<layers, activeLayerIndex, canvas>>]_vars

\* deleteLayer was invoked on the only layer, with a drawing on the canvas
C7_Witness ==
    /\ last.ev = "deleteLayer"
    /\ last.n = 1
    /\ Len(layers) = 1
    /\ \E p \in DOMAIN canvas : canvas[p] = "K"

C9_ToggleKeepsPixels ==
    [][last'.ev = "toggle" =>
        /\ canvas' = canvas
        /\ Len(layers') = Len(layers)
        /\ \A j \in DOMAIN layers :
              /\ Surface(layers'[j], canvas') = Surface(layers[j], canvas)
              /\ layers'[j].id = layers[j].id
              /\ layers'[j].canvas = layers[j].canvas
              /\ layers'[j].visible = (IF j - 1 = last'.arg THEN ~layers[j].visible
                                       ELSE layers[j].visible)
        /\ activeLayerIndex' = activeLayerIndex]_vars

RECURSIVE OverLayers(_, _, _)
OverLayers(out, ls, i) ==
    IF i > Len(ls) THEN out
    ELSE OverLayers(IF ls[i].visible /\ ls[i].canvas # "null"
                    THEN DrawImage(out, Surface(ls[i], canvas))
                    ELSE out,
                    ls, i + 1)

\* opaque white with the surfaces of the visible layers drawn over it,
\* bottom to top
Composite(ls) == OverLayers(FillRect(NewCanvas(Width), "W"), ls, 1)

\* C10: outside an open gesture the displayed canvas is opaque white with the
\* surfaces of exactly the currently visible layers drawn over it, so nothing
\* drawn on a hidden layer is on screen.
C10_HiddenLayersInvisible ==
    (~showLanding /\ ~isDrawing) => canvas = Composite(layers)

\* the step ran redrawCanvas
Redrawn ==
    \/ last'.ev = "toggle"
    \/ last'.ev = "deleteLayer" /\ DeleteGuard(layers)

\* the layer list that run of redrawCanvas walked
Walked == IF last'.ev = "toggle" THEN ToggleRedrawLayers(layers) ELSE layers

White(w) == FillRect(NewCanvas(w), "W")

\* C11: when redrawCanvas walks a layer list in which no layer is visible, the
\* canvas it leaves is opaque white at every pixel, whatever the surfaces of
\* the hidden layers hold.
C11_NoVisibleLayerWhite ==
    [][(Redrawn /\ \A j \in DOMAIN Walked : ~Walked[j].visible) =>
            canvas' = White(Len(canvas))]_vars

\* redrawCanvas ran over two hidden layers, the first of which holds a drawing
C11_Witness ==
    /\ last.ev = "deleteLayer"
    /\ last.n = 2
    /\ last.none
    /\ Len(layers) = 1
    /\ layers[1].canvas = "main"
    /\ \E p \in DOMAIN firstCanvas : firstCanvas[p] = "K"
    /\ Surface(layers[1], canvas) = firstCanvas
    /\ canvas = White(Width)

\* C12: redrawCanvas is read-only on layer surfaces: a step that runs it
\* changes no pixel of any layer's surface, the first layer's (the on-screen
\* canvas element) included.
C12_CompositeReadOnly ==
    [][Redrawn =>
        \A j \in DOMAIN layers :
            Surface(layers[j], canvas') = Surface(layers[j], canvas)]_vars

\* C13: a gesture writes to the active layer only: no pointer event changes a
\* pixel of the surface of a layer other than the one at activeLayerIndex.
C13_GestureWritesActiveLayerOnly ==
    [][last'.ev \in {"mousedown", "mousemove", "mouseup", "mouseleave",
                     "touchstart", "touchmove", "touchend"} =>
        \A j \in DOMAIN layers :
            j - 1 # activeLayerIndex =>
                Surface(layers[j], canvas') = Surface(layers[j], canvas)]_vars

\* C14: addLayer appends one layer on top - visible, with a fully transparent
\* surface as wide as the canvas - makes it the active one and changes no
\* existing layer (id, name, visibility, position, pixels) nor the canvas.
C14_AddLayerAppends ==
    [][last'.ev = "addLayer" =>
        /\ Len(layers') = Len(layers) + 1
        /\ \A j \in DOMAIN layers :
              /\ layers'[j] = layers[j]
              /\ Surface(layers'[j], canvas') = Surface(layers[j], canvas)
        /\ layers'[Len(layers')].visible
        /\ Surface(layers'[Len(layers')], canvas') = NewCanvas(Len(canvas))
        /\ activeLayerIndex' = Len(layers') - 1
        /\ canvas' = canvas]_vars

\* a layer was added over a first layer that holds a drawing, on a canvas
\* narrower than the full window
C14_Witness ==
    /\ last.ev = "addLayer"
    /\ last.n = 1
    /\ Len(layers) = 2
    /\ activeLayerIndex = 1
    /\ layers[2].visible
    /\ Len(canvas) = 1
    /\ Surface(layers[2], canvas) = <<"T">>
    /\ canvas = <<"K">>

\* C15: no two layers of the stack have the same id.
C15_LayerIdsUnique ==
    \A i, j \in DOMAIN layers : i # j => layers[i].id # layers[j].id

\* the step resized a canvas that has pixels
ResizeApplied == last'.ev = "resize" /\ ~showLanding /\ Len(canvas) > 0

\* C16: a resize to a positive width keeps every pixel of the overlapping
\* region and leaves every newly exposed pixel of the canvas opaque white.
C16_ResizeKeepsAndWhitens ==
    [][(ResizeApplied /\ last'.arg > 0) =>
        /\ Len(canvas') = last'.arg
        /\ \A p \in DOMAIN canvas' :
              canvas'[p] = IF p \in DOMAIN canvas THEN canvas[p] ELSE "W"]_vars

\* C17: a resize to a width that is not positive is rejected: the canvas
\* keeps its width and its pixels.
C17_NonPositiveResizeRejected ==
    [][(ResizeApplied /\ last'.arg <= 0) => canvas' = canvas]_vars

\* the step started loading a snapshot that cannot be decoded
DecodeFails ==
    /\ last'.ev \in {"undo", "redo"}
    /\ Len(pending') = Len(pending) + 1
    /\ ~Decodable(pending'[Len(pending')])

\* C18: an undo or redo step whose snapshot fails to decode leaves the canvas,
\* the cursor and the log unchanged.
C18_FailedDecodeKeepsCursor ==
    [][DecodeFails => UNCHANGED <<canvas, historyIndex, history>>]_vars

Ends == {"mouseup", "mouseleave", "touchend"}

\* C19: pointer-leave, pointer-up and touch-end close an open gesture in the
\* same way: the successor has no gesture open and no preview snapshot,
\* exactly one checkpoint of the canvas pushed at the cursor, and the canvas,
\* the tool and the layers as they were; no gesture is open after any of them.
C19_LeaveIsUp ==
    /\ [](last.ev \in Ends => ~isDrawing)
    /\ [][(last'.ev \in Ends /\ isDrawing) =>
            /\ shapePreviewImage' = <<>>
            /\ Len(history') = historyIndex + 2
            /\ SubSeq(history', 1, historyIndex + 1) = SubSeq(history, 1, historyIndex + 1)
            /\ history'[Len(history')] = ToDataURL(canvas)
            /\ historyIndex' = historyIndex + 1
            /\ UNCHANGED <<canvas, drawingMode, layers, activeLayerIndex, pending,
                           showLanding>>]_vars

\* the pointer left the canvas during a shape preview that had drawn its shape
C19_Witness ==
    /\ last.ev = "mouseleave"
    /\ last.was
    /\ ~Freehand(drawingMode)
    /\ ~isDrawing
    /\ shapePreviewImage = <<>>
    /\ historyIndex = last.idx + 1
    /\ \E p \in DOMAIN canvas : canvas[p] = "K"

\* C20: while a touch gesture is open a second touch-start neither moves the
\* anchor nor captures the preview snapshot again, and lifting a finger other
\* than the first neither ends the gesture nor pushes a checkpoint.
C20_MultiTouchIgnored ==
    [][/\ (last'.ev = "touchstart" /\ isDrawing /\ touches # <<>>) =>
            UNCHANGED <<startPoint, shapePreviewImage>>
       /\ (last'.ev = "touchend" /\ isDrawing /\ last'.finger > 1) =>
            UNCHANGED <<isDrawing, history, historyIndex>>]_vars

Downs == {"mousedown", "touchstart"}

Moves == {"mousemove", "touchmove"}

\* a shape gesture is open and its last event was a move
ShapePreviewed == isDrawing /\ ~Freehand(drawingMode) /\ last.ev \in Moves

\* C21: the shape preview never accumulates: the snapshot is the canvas as
\* it was at pointer-down and no move changes it or the anchor; after every
\* move of a shape gesture the canvas is that snapshot with exactly one
\* primitive, spanning the anchor and the pointer, stroked over it; and the
\* checkpoint pushed at the end of the gesture holds that same content.
C21_PreviewNeverAccumulates ==
    /\ [](ShapePreviewed =>
            /\ \E p \in TouchPoints :
                  ctx.path = ShapePath(drawingMode, startPoint, p)
            /\ last.ev = "touchmove" =>
                  ctx.path = ShapePath(drawingMode, startPoint, touches[1])
            /\ canvas = Stroke(shapePreviewImage, ctx.path, color))
    /\ [][(last'.ev \in Downs /\ ~Freehand(drawingMode)) =>
            shapePreviewImage' = canvas /\ canvas' = canvas]_vars
    /\ [][last'.ev \in Moves => UNCHANGED <<shapePreviewImage, startPoint>>]_vars
    /\ [][(last'.ev \in Ends /\ ShapePreviewed) =>
            history'[Len(history')] =
                ToDataURL(Stroke(shapePreviewImage, ctx.path, color))]_vars

\* a line preview with the pointer on the anchor: that one pixel, stroked over
\* the white snapshot, is all that is on the canvas
C21_Witness ==
    /\ ShapePreviewed
    /\ drawingMode = "line"
    /\ startPoint = 1
    /\ ctx.pt = 1
    /\ shapePreviewImage = White(Width)
    /\ canvas = Stroke(White(Width), {1}, color)
    /\ color # "W"

C25_PointsClamped ==
    /\ startPoint # 0 => startPoint \in DOMAIN canvas
    /\ ctx.pt # 0 => ctx.pt \in DOMAIN canvas

\* C23: every layer's surface is as wide as the canvas on screen, in every
\* state of the editor (stated for a canvas that has pixels).
C23_SurfaceSizes ==
    (~showLanding /\ Len(canvas) > 0) =>
        \A j \in DOMAIN layers :
            layers[j].canvas # "null" =>
                Len(Surface(layers[j], canvas)) = Len(canvas)

\* C24: selecting a layer changes activeLayerIndex and nothing else: the log,
\* the cursor, the layer list and every pixel stay as they are.
C24_SetActiveOnlyIndex ==
    [][last'.ev = "setActive" =>
        /\ activeLayerIndex' = last'.arg
        /\ UNCHANGED <<history, historyIndex, pending, layers, canvas, firstCanvas,
                       shapePreviewImage, isDrawing>>]_vars

\* another layer was selected over a canvas that holds a checkpointed drawing
C24_Witness ==
    /\ last.ev = "setActive"
    /\ last.arg # last.act
    /\ activeLayerIndex = last.arg
    /\ Len(history) >= 2
    /\ \E p \in DOMAIN canvas : canvas[p] = "K"

\* C27: with no gesture open and no decode in flight the canvas on screen is
\* the content of the history entry at the cursor (stated for a canvas that
\* has pixels).
C27_CanvasIsEntryAtCursor ==
    (~showLanding /\ ~isDrawing /\ pending = <<>> /\ Len(canvas) > 0) =>
        ToDataURL(canvas) = Entry(history, historyIndex)

\* C28: after a run of checkpoints, undos and redos, once every decode has
\* completed, in whatever order, the canvas is the entry at the cursor.
C28_DecodeOrdering ==
    (rt.phase \in {"undo", "redo"} /\ pending = <<>>) =>
        canvas = ImageOf(Entry(history, historyIndex))

\* C26: clear fills the canvas with white and pushes one checkpoint of the
\* white canvas, the entries after the cursor discarded and those up to it
\* kept; the entry before the new checkpoint holds the canvas as it was before
\* the clear (stated with no decode in flight), and an undo that follows
\* moves the cursor back to it.
C26_ClearThenUndo ==
    /\ [][last'.ev = "clear" =>
            /\ canvas' = White(Len(canvas))
            /\ historyIndex' = historyIndex + 1
            /\ Len(history') = historyIndex + 2
            /\ \A i \in 1..(historyIndex + 1) : history'[i] = history[i]
            /\ history'[Len(history')] = ToDataURL(canvas')
            /\ pending = <<>> =>
                    Entry(history', historyIndex' - 1) = ToDataURL(canvas)]_vars
    /\ [][(last.ev = "clear" /\ last'.ev = "undo") =>
            historyIndex' = historyIndex - 1]_vars

\* the operations that are no checkpoint
NoCheckpoint ==
    {"undo", "redo", "onload", "onerror", "resize", "addLayer", "toggle", "deleteLayer",
     "setActive", "mousedown", "mousemove", "touchstart", "touchmove"}

\* C29: the entries of the log never change.  Undo and redo leave the log as
\* it is and move the cursor by at most one; no drawing, decode, layer or
\* resize step changes the log; and a step that changes it keeps the entries
\* up to the cursor, drops those after it and appends one.
C29_LogImmutable ==
    /\ [][last'.ev \in {"undo", "redo"} =>
            /\ history' = history
            /\ historyIndex' \in {historyIndex - 1, historyIndex, historyIndex + 1}
            /\ UNCHANGED <<canvas, layers, activeLayerIndex>>]_vars
    /\ [][last'.ev \in NoCheckpoint => history' = history]_vars
    /\ [][history' # history =>
            /\ Len(history') = historyIndex + 2
            /\ \A i \in 1..(historyIndex + 1) : history'[i] = history[i]]_vars

\* an undo moved the cursor off the tip of a log of two entries while a
\* second layer existed
C29_Witness ==
    /\ last.ev = "undo"
    /\ last.len = 2
    /\ last.idx = 1
    /\ historyIndex = 0
    /\ Len(history) = 2
    /\ history[2] # history[1]
    /\ Len(layers) = 2

\* C30: deleting a layer that is not the active one keeps the same layer
\* active: the index drops by one when the deleted layer is below it, stays
\* when it is above, and the layer at the new index is the layer that was
\* at the old one.
C30_DeleteKeepsActiveLayer ==
    [][(last'.ev = "deleteLayer" /\ Len(layers) > 1 /\ last'.arg # activeLayerIndex) =>
        /\ activeLayerIndex' =
                IF last'.arg < activeLayerIndex THEN activeLayerIndex - 1 ELSE activeLayerIndex
        /\ activeLayerIndex' \in 0..(Len(layers') - 1)
        /\ layers'[activeLayerIndex' + 1] = layers[activeLayerIndex + 1]]_vars

\* of three layers the last was active and the middle one was deleted
C30_Witness ==
    /\ last.ev = "deleteLayer"
    /\ last.n = 3
    /\ last.arg = 1
    /\ last.act = 2
    /\ activeLayerIndex = 1
    /\ Len(layers) = 2
    /\ layers[2].id = 3

\* C31: on the editor the undo button is enabled exactly when the cursor is
\* above 0 and the redo button exactly when it is below the last entry, and
\* a call of the undo (redo) handler moves the cursor exactly when its
\* button is enabled.
C31_ControlsEnabledIffMove ==
    /\ [](~showLanding =>
            /\ ~UndoDisabled(historyIndex) <=> historyIndex > 0
            /\ ~RedoDisabled(historyIndex, history) <=> historyIndex < Len(history) - 1)
    /\ [][last'.ev = "undo" =>
            (historyIndex' # historyIndex <=> ~UndoDisabled(historyIndex))]_vars
    /\ [][last'.ev = "redo" =>
            (historyIndex' # historyIndex <=> ~RedoDisabled(historyIndex, history))]_vars

\* an undo brought the cursor to the first of two entries: undo is now
\* disabled and redo enabled
C31_Witness ==
    /\ last.ev = "undo"
    /\ last.idx = 1
    /\ historyIndex = 0
    /\ Len(history) = 2
    /\ UndoDisabled(historyIndex)
    /\ ~RedoDisabled(historyIndex, history)

\* C32: with no gesture open a pointer move, a pointer up, the pointer
\* leaving and a touch end change nothing: not the canvas, the log, the
\* cursor, the anchor, the preview snapshot or the gesture flag.
C32_IdlePointerEventsInert ==
    [][(~isDrawing /\ last'.ev \in Moves \cup Ends) =>
        UNCHANGED <<canvas, history, historyIndex, startPoint, shapePreviewImage,
                    isDrawing, pending, layers, activeLayerIndex>>]_vars

\* a finger was lifted with no gesture open, after a stroke was drawn and
\* checkpointed
C32_Witness ==
    /\ last.ev = "touchend"
    /\ ~last.was
    /\ last.len = 2
    /\ Len(history) = 2
    /\ \E p \in DOMAIN canvas : canvas[p] = "K"

\* C33: entering the editor for the first time leaves one layer, visible and
\* active, a white canvas, and a log of one entry, the blank canvas, with the
\* cursor on it; while the log of the editor is that one entry undo and redo
\* are disabled, and only the end of a gesture or a clear changes the log or
\* the cursor.
C33_SessionStart ==
    /\ [][(last'.ev = "enter" /\ mounts = 0) =>
            /\ Len(layers') = 1
            /\ layers'[1].visible
            /\ activeLayerIndex' = 0
            /\ Len(canvas') > 0
            /\ canvas' = White(Len(canvas'))
            /\ history' = <<ToDataURL(White(Len(canvas')))>>
            /\ historyIndex' = 0]_vars
    /\ []((~showLanding /\ Len(history) = 1) =>
            /\ UndoDisabled(historyIndex)
            /\ RedoDisabled(historyIndex, history))
    /\ [][(~showLanding /\ Len(history) = 1
            /\ (history' # history \/ historyIndex' # historyIndex)) =>
            last'.ev \in Ends \cup {"clear"}]_vars

\* the editor right after it was entered for the first time
C33_Witness ==
    /\ last.ev = "enter"
    /\ last.len = 0
    /\ mounts = 1
    /\ Len(history) = 1
    /\ historyIndex = 0
    /\ canvas = White(Width)

====
